---------------------------- MODULE Spec2Model ----------------------------
(***************************************************************************)
(* Model of artkonr/wordle: the secret Word (src/src/game.rs and its twin  *)
(* src/src/rules.rs), the GuessResult it produces, and the two driving     *)
(* loops (start_game_loop in game.rs, main in main.rs).                    *)
(*                                                                         *)
(* A Rust String is modelled as a sequence of characters.  Two measures of *)
(* a string are kept apart, as in Rust: String::len() counts UTF-8 bytes   *)
(* (operator len), str::chars() yields characters (Len of the sequence).   *)
(* Positions are 0-based as in the source; sequence index i+1 holds the    *)
(* character at position i.                                                *)
(***************************************************************************)
EXTENDS Integers, Sequences, FiniteSets, TLC

VARIABLES
    raw,        \* the String handed to Word::analyze
    word,       \* the Word built from it (NoWord before / without one)
    pc,         \* where the run is
    guess,      \* the String last handed to try_match / read by a loop
    result,     \* GuessResult.result: the Vec<MatchResult> last produced
    full,       \* the value last returned by GuessResult::full_match
    revealed,   \* the String last returned by Word::reveal
    driver,     \* which loop drives the game: "none", "game", "main"
    attempt_n,  \* the loops' attempt counter
    scored,     \* try_match calls made by the loop in this game
    failed,     \* scored guesses that did not fully match
    reported,   \* the N printed in "You needed N attempts" (NoReport before)
    said        \* what the program printed last: "nothing", "need5",
                \* "feedback", "won", "lost"

vars == <<raw, word, pc, guess, result, full, revealed, driver, attempt_n,
          scored, failed, reported, said>>

-----------------------------------------------------------------------------
(* Bounds of the model *)

\* longest String (in characters) handed to Word::analyze
MaxLen == 6
\* longest String (in characters) handed to try_match in the Word specification
MaxGuessLen == 5
\* longest Vec<MatchResult> built by pushes in the GuessResult specification
MaxSlots == 6

(* Program constants *)

ATTEMPT_COUNT == 6
WORD_LENGTH == 5

-----------------------------------------------------------------------------
(* Characters and strings *)

\* one-byte letters, and one two-byte letter (U+00E9, "e acute")
Letters == {"a", "b", "eacute"}

\* UTF-8 width of a character
Utf8Len(c) == IF c = "eacute" THEN 2 ELSE 1

RECURSIVE len(_)
\* String::len(): the number of bytes, not of characters
len(s) == IF s = <<>> THEN 0 ELSE Utf8Len(Head(s)) + len(Tail(s))

\* `ind as u8`
AsU8(n) == n % 256

\* char::is_whitespace, for the characters of the model: space, CR, LF
is_whitespace(c) == c \in {"sp", "cr", "lf"}

RECURSIVE trim_end(_)
\* str::trim_end: the string without its trailing whitespace
trim_end(s) ==
    IF s = <<>> THEN s
    ELSE IF is_whitespace(s[Len(s)]) THEN trim_end(SubSeq(s, 1, Len(s) - 1))
    ELSE s

Bathe == <<"b", "a", "t", "h", "e">>
Braid == <<"b", "r", "a", "i", "d">>
Aaaaa == <<"a", "a", "a", "a", "a">>
Aabaa == <<"a", "a", "b", "a", "a">>

StringsUpTo(n) == UNION {[1..k -> Letters] : k \in 0..n}

\* Strings handed to Word::analyze in the Word specification
WordInputs == StringsUpTo(MaxLen) \cup {Bathe, Braid}

\* Strings handed to try_match in the Word specification
GuessInputs == StringsUpTo(MaxGuessLen) \cup {Bathe, Braid}

-----------------------------------------------------------------------------
(* MatchResult and GuessResult *)

MatchResult == {"Match", "Exists", "None"}

\* the mutant of new_all_green: the wrong variant repeated
new_all_yellow == [i \in 1..5 |-> "Exists"]

\* GuessResult::new_all_green: repeat(Match).take(5)
new_all_green == [i \in 1..5 |-> "Match"]

\* GuessResult::new_empty
new_empty == <<>>

\* GuessResult::push
push(res, r) == Append(res, r)

\* the mutant of full_match: `any` in place of `all`
full_match_any(res) == \E i \in 1..Len(res) : res[i] = "Match"

\* GuessResult::full_match: iter().all(|item| *item == Match)
full_match(res) == \A i \in 1..Len(res) : res[i] = "Match"

-----------------------------------------------------------------------------
(* Word *)

\* the empty HashMap
EmptyMap == [c \in {} |-> {}]

\* no Word: before construction, and after a panic of Word::analyze
NoWord == [val |-> <<>>, letters |-> EmptyMap, built |-> FALSE]
Panic == NoWord

\* the mutant of analyze_insert: a repeated letter keeps only its first position
analyze_insert_first(mm, ch, ind) ==
    IF ch \in DOMAIN mm
    THEN mm
    ELSE [c \in DOMAIN mm \cup {ch} |-> IF c = ch THEN {AsU8(ind)} ELSE mm[c]]

\* the body of the loop of Word::analyze: one (ind, ch) of chars().enumerate()
analyze_insert(mm, ch, ind) ==
    IF ch \in DOMAIN mm
    THEN [mm EXCEPT ![ch] = @ \cup {AsU8(ind)}]
    ELSE [c \in DOMAIN mm \cup {ch} |-> IF c = ch THEN {AsU8(ind)} ELSE mm[c]]

RECURSIVE analyze_loop(_, _, _)
\* the loop of Word::analyze from position ind on
analyze_loop(w, ind, mm) ==
    IF ind >= Len(w)
    THEN mm
    ELSE analyze_loop(w, ind + 1, analyze_insert(mm, w[ind + 1], ind))

\* the check of Word::analyze: word.len() != 5 panics
length_ok(w) == len(w) = WORD_LENGTH

\* Word { val: word, letters: mm }
make_word(w, mm) == [val |-> w, letters |-> mm, built |-> TRUE]

\* Word::analyze (and Word::analyze_str, which only converts its argument)
analyze(w) ==
    IF ~length_ok(w)
    THEN Panic
    ELSE make_word(w, analyze_loop(w, 0, EmptyMap))

\* a mutant of match_one: the position is not looked up, any letter of the
\* secret counts as matched
match_one_anywhere(wd, ch, ind) ==
    IF ch \in DOMAIN wd.letters THEN "Match" ELSE "None"

\* a mutant of match_one: a letter the secret lacks counts as misplaced
match_one_lenient(wd, ch, ind) ==
    IF ch \in DOMAIN wd.letters /\ AsU8(ind) \in wd.letters[ch]
    THEN "Match"
    ELSE "Exists"

\* the body of the loop of try_match: letters.get(&char).map(..).unwrap_or(None)
match_one(wd, ch, ind) ==
    IF ch \in DOMAIN wd.letters
    THEN IF AsU8(ind) \in wd.letters[ch] THEN "Match" ELSE "Exists"
    ELSE "None"

RECURSIVE scan(_, _, _, _)
\* the loop of try_match from position ind on, pushing onto res
scan(wd, g, ind, res) ==
    IF ind >= Len(g)
    THEN res
    ELSE scan(wd, g, ind + 1, push(res, match_one(wd, g[ind + 1], ind)))

\* Word::try_match
try_match(wd, g) ==
    IF wd.val = g
    THEN new_all_green
    ELSE scan(wd, g, 0, new_empty)

\* Word::reveal
reveal(wd) == wd.val

-----------------------------------------------------------------------------
(* The Word specification: one Word is built, then used once *)

NoReport == -1

Idle ==
    /\ word = NoWord
    /\ guess = <<>>
    /\ result = <<>>
    /\ full = FALSE
    /\ revealed = <<>>
    /\ driver = "none"
    /\ attempt_n = 0
    /\ scored = 0
    /\ failed = 0
    /\ reported = NoReport
    /\ said = "nothing"

InitWord ==
    /\ raw \in WordInputs
    /\ pc = "start"
    /\ Idle

\* Word::analyze(raw): a Word, or a panic
Analyze ==
    /\ pc = "start"
    /\ word' = analyze(raw)
    /\ pc' = IF word'.built THEN "ready" ELSE "panic"
    /\ UNCHANGED <<raw, guess, result, full, revealed, driver, attempt_n,
                   scored, failed, reported, said>>

\* word.try_match(&g)
TryMatch ==
    /\ pc = "ready"
    /\ \E g \in GuessInputs :
          /\ guess' = g
          /\ result' = try_match(word, g)
    /\ pc' = "matched"
    /\ UNCHANGED <<raw, word, full, revealed, driver, attempt_n, scored,
                   failed, reported, said>>

\* result.full_match()
FullMatch ==
    /\ pc \in {"matched", "building"}
    /\ full' = full_match(result)
    /\ pc' = "judged"
    /\ UNCHANGED <<raw, word, guess, result, revealed, driver, attempt_n,
                   scored, failed, reported, said>>

\* word.reveal()
Reveal ==
    /\ pc = "ready"
    /\ revealed' = reveal(word)
    /\ pc' = "revealed"
    /\ UNCHANGED <<raw, word, guess, result, full, driver, attempt_n, scored,
                   failed, reported, said>>

NextWord == Analyze \/ TryMatch \/ FullMatch \/ Reveal

SpecWord == InitWord /\ [][NextWord]_vars

-----------------------------------------------------------------------------
(* Claims about Word and try_match, checked under SpecWord *)

Scored == pc \in {"matched", "judged"}

\* what the claim says slot i (1-based here) of the feedback for g must be
Expected(v, g, i) ==
    IF i <= Len(v) /\ v[i] = g[i] THEN "Match"
    ELSE IF \E j \in 1..Len(v) : v[j] = g[i] THEN "Exists"
    ELSE "None"

\* C1: for every constructed secret and every guess of 5 characters that
\* differs from the secret, try_match returns exactly 5 slots in guess order:
\* slot i is Match if the secret has guess[i] at position i, Exists if guess[i]
\* occurs in the secret but not at position i, None if it does not occur at
\* all; secret "bathe" with guess "braid" gives [Match, None, Exists, None, None].
C1_SlotsFollowSecret ==
    (Scored /\ Len(guess) = WORD_LENGTH /\ guess # word.val) =>
        /\ Len(result) = WORD_LENGTH
        /\ \A i \in 1..WORD_LENGTH : result[i] = Expected(word.val, guess, i)
        /\ (word.val = Bathe /\ guess = Braid) =>
               result = <<"Match", "None", "Exists", "None", "None">>

C1_Witness ==
    /\ pc = "matched"
    /\ word.val = Bathe
    /\ guess = Braid
    /\ result = <<"Match", "None", "Exists", "None", "None">>

\* C2: for every string whose length (its number of characters, as the doc
\* comment of Word::analyze and the spec count it) is not 5, the empty string
\* and strings of length 4 and 6 among them, Word::analyze fails (it panics)
\* and no Word is produced.
C2_WrongLengthFails ==
    (pc # "start" /\ Len(raw) # WORD_LENGTH) => (pc = "panic" /\ ~word.built)

\* C3: for every 5-character string w, Word::analyze succeeds and
\* Word::reveal returns exactly w, character for character.
C3_RevealReturnsText ==
    (pc # "start" /\ Len(raw) = WORD_LENGTH) =>
        /\ pc # "panic"
        /\ word.built
        /\ pc = "revealed" =>
              /\ Len(revealed) = WORD_LENGTH
              /\ \A i \in 1..WORD_LENGTH : revealed[i] = raw[i]

\* C4: for every constructed secret, try_match on the secret's own text yields
\* WORD_LENGTH slots that are all Match, and full_match on them is true.
C4_OwnTextAllMatched ==
    (Scored /\ guess = word.val) =>
        /\ Len(result) = WORD_LENGTH
        /\ \A i \in 1..Len(result) : result[i] = "Match"
        /\ pc = "judged" => full = TRUE

C4_Witness ==
    /\ pc = "judged"
    /\ word.val = Bathe
    /\ guess = Bathe
    /\ full = TRUE

\* C6: after Word::analyze succeeds the letter index is exactly derived from
\* the text: for every position i of the text, text[i] is a key whose set
\* contains i and no other key's set contains i; every key occurs in the text
\* and every position of a set is a position of the text holding that key.
\* A word of 5 distinct letters has 5 singleton sets, "aaaaa" one key with
\* {0,1,2,3,4}.
C6_IndexDerivedFromText ==
    word.built =>
        LET v == word.val
            L == word.letters
        IN  /\ \A i \in 0..(Len(v) - 1) :
                  /\ v[i + 1] \in DOMAIN L
                  /\ i \in L[v[i + 1]]
                  /\ \A c \in DOMAIN L \ {v[i + 1]} : i \notin L[c]
            /\ \A c \in DOMAIN L :
                  /\ L[c] # {}
                  /\ \A p \in L[c] : p \in 0..(Len(v) - 1) /\ v[p + 1] = c
            /\ v = Bathe =>
                  /\ Cardinality(DOMAIN L) = 5
                  /\ \A i \in 0..4 : L[v[i + 1]] = {i}
            /\ v = Aaaaa => (DOMAIN L = {"a"} /\ L["a"] = {0, 1, 2, 3, 4})

C6_Witness ==
    /\ pc = "ready"
    /\ word.val = Aaaaa
    /\ DOMAIN word.letters = {"a"}
    /\ word.letters["a"] = {0, 1, 2, 3, 4}

\* C7 as claimed: secret "aaaaa", guess "aabaa" gives
\* [Match, Match, Exists, Match, Match].
C7_Original ==
    (Scored /\ word.val = Aaaaa /\ guess = Aabaa) =>
        result = <<"Match", "Match", "Exists", "Match", "Match">>

\* C7 as amended: secret "aaaaa", guess "aabaa" gives
\* [Match, Match, None, Match, Match]: 'b' does not occur in "aaaaa".
C7_AabaaAgainstAaaaa ==
    (Scored /\ word.val = Aaaaa /\ guess = Aabaa) =>
        result = <<"Match", "Match", "None", "Match", "Match">>

C7_Witness ==
    /\ pc = "matched"
    /\ word.val = Aaaaa
    /\ guess = Aabaa
    /\ Len(result) = WORD_LENGTH

\* C10: for every constructed secret, the per-position scan of try_match on
\* the secret's own text produces the same sequence of 5 Match slots as the
\* fast path, so try_match returns what the scan alone returns for every
\* (secret, 5-character guess) pair.
C10_FastPathIsScan ==
    /\ (Scored /\ guess = word.val) =>
          /\ scan(word, guess, 0, new_empty) =
                 <<"Match", "Match", "Match", "Match", "Match">>
          /\ result = scan(word, guess, 0, new_empty)
    /\ (Scored /\ Len(guess) = WORD_LENGTH) =>
          result = scan(word, guess, 0, new_empty)

-----------------------------------------------------------------------------
(* The GuessResult specification: a GuessResult is built by new_empty or   *)
(* new_all_green and pushes, then asked full_match                         *)

InitResult ==
    /\ raw = <<>>
    /\ pc = "building"
    /\ word = NoWord
    /\ guess = <<>>
    /\ result \in {new_empty, new_all_green}
    /\ full = FALSE
    /\ revealed = <<>>
    /\ driver = "none"
    /\ attempt_n = 0
    /\ scored = 0
    /\ failed = 0
    /\ reported = NoReport
    /\ said = "nothing"

\* result.push(r)
Push ==
    /\ pc = "building"
    /\ Len(result) < MaxSlots
    /\ \E r \in MatchResult : result' = push(result, r)
    /\ UNCHANGED <<raw, word, pc, guess, full, revealed, driver, attempt_n,
                   scored, failed, reported, said>>

NextResult == Push \/ FullMatch

SpecResult == InitResult /\ [][NextResult]_vars

\* C5: full_match returns false for every feedback sequence with at least one
\* slot that is not Match and true for every other one, the empty sequence of
\* new_empty included: it is true iff every slot is Match.
C5_FullMatchIffAllMatch ==
    pc = "judged" =>
        /\ (\E i \in 1..Len(result) : result[i] # "Match") => full = FALSE
        /\ ~(\E i \in 1..Len(result) : result[i] # "Match") => full = TRUE
        /\ result = new_empty => full = TRUE

C5_Witness ==
    /\ pc = "judged"
    /\ Len(result) = WORD_LENGTH
    /\ result[3] = "Exists"
    /\ \A i \in {1, 2, 4, 5} : result[i] = "Match"
    /\ full = FALSE

-----------------------------------------------------------------------------
(* The game: a Word is built, then one of the two loops is run on it *)

\* the secret words of the games explored
GameSecrets == {Bathe, Aaaaa, <<"b", "a", "b", "a", "b">>}

\* what the player types before the end of the line; "xFF" is a byte that is
\* not valid UTF-8
GameTexts ==
    {<<>>, Bathe, Braid, Aaaaa,
     <<"b", "a", "t">>, <<"b", "a", "d">>,
     <<"b", "a", "b", "a", "b">>,
     <<"eacute", "a", "b", "a">>,
     <<"b", "a", "t", "h", "e", "s">>,
     <<"xFF">>, <<"b", "a", "t", "xFF", "e">>}

\* how the line ends: end of input, LF, CR LF, a space before LF
GameEndings == {<<>>, <<"lf">>, <<"cr", "lf">>, <<"sp", "lf">>}

\* the lines that stdin can hold
GameLines == {t \o e : t \in GameTexts, e \in GameEndings}

\* stdin().read_line(&mut input) returns Ok: the line is valid UTF-8 (an Err,
\* here InvalidData, makes .expect("Failed to read user input") panic)
read_line_ok(input) == \A i \in 1..Len(input) : input[i] # "xFF"

\* .expect("Failed to read user input") panics: the program ends, nothing is
\* read, scored or printed
ReadPanics ==
    /\ pc' = "read_failed"
    /\ UNCHANGED <<guess, result, full, attempt_n, scored, failed, reported,
                   said>>

\* GuessResult::print_result_for does not panic: get_and_colorize is called 5
\* times, each unwraps the next character of the guess and its slot
print_result_for_ok(res, g) ==
    \A k \in 0..4 : k < Len(g) /\ k < Len(res)

InitGame ==
    /\ raw \in GameSecrets
    /\ pc = "start"
    /\ Idle

\* start_game_loop(&word) is called: attempt_n = 0
StartGameLoop ==
    /\ pc = "ready"
    /\ driver' = "game"
    /\ attempt_n' = 0
    /\ pc' = "loop"
    /\ UNCHANGED <<raw, word, guess, result, full, revealed, scored, failed,
                   reported, said>>

\* main enters its for loop over 0..ATTEMPT_COUNT
StartMain ==
    /\ pc = "ready"
    /\ driver' = "main"
    /\ attempt_n' = 0
    /\ pc' = "loop"
    /\ UNCHANGED <<raw, word, guess, result, full, revealed, scored, failed,
                   reported, said>>

\* what both loops do with a guess once it is handed to try_match:
\* full_match, then the win message or print_result_for
ScoreGuess(g) ==
    /\ guess' = g
    /\ result' = try_match(word, g)
    /\ full' = full_match(result')
    /\ scored' = scored + 1
    /\ IF full'
       THEN /\ said' = "won"
            /\ reported' = attempt_n
            /\ pc' = "won"
            /\ UNCHANGED <<attempt_n, failed>>
       ELSE /\ failed' = failed + 1
            /\ reported' = reported
            /\ IF print_result_for_ok(result', g)
               THEN /\ said' = "feedback"
                    /\ attempt_n' = attempt_n + 1
                    /\ pc' = "loop"
               ELSE /\ said' = said
                    /\ attempt_n' = attempt_n
                    /\ pc' = "panicked"

\* start_game_loop, top of an iteration with the attempts used up: it returns
\* Err(GameLost::with_word(word)) and prints nothing
GameLoopLost ==
    /\ pc = "loop"
    /\ driver = "game"
    /\ attempt_n = ATTEMPT_COUNT
    /\ revealed' = reveal(word)
    /\ pc' = "lost"
    /\ UNCHANGED <<raw, word, guess, result, full, driver, attempt_n, scored,
                   failed, reported, said>>

\* start_game_loop, one iteration that reads a line
GameLoopRead ==
    /\ pc = "loop"
    /\ driver = "game"
    /\ attempt_n # ATTEMPT_COUNT
    /\ \E input \in GameLines :
          LET g == trim_end(input)
          IN  IF ~read_line_ok(input)
              THEN ReadPanics
              ELSE IF len(g) # 5
              THEN /\ guess' = g
                   /\ said' = "need5"
                   /\ UNCHANGED <<result, full, attempt_n, scored, failed,
                                  reported, pc>>
              ELSE ScoreGuess(g)
    /\ UNCHANGED <<raw, word, revealed, driver>>

\* main, one iteration of the for loop
MainIteration ==
    /\ pc = "loop"
    /\ driver = "main"
    /\ attempt_n < ATTEMPT_COUNT
    /\ \E input \in GameLines :
          IF ~read_line_ok(input)
          THEN ReadPanics
          ELSE ScoreGuess(trim_end(input))
    /\ UNCHANGED <<raw, word, revealed, driver>>

\* main, after the for loop: the range 0..ATTEMPT_COUNT is used up
MainLost ==
    /\ pc = "loop"
    /\ driver = "main"
    /\ attempt_n = ATTEMPT_COUNT
    /\ revealed' = reveal(word)
    /\ said' = "lost"
    /\ pc' = "lost"
    /\ UNCHANGED <<raw, word, guess, result, full, driver, attempt_n, scored,
                   failed, reported>>

NextGame ==
    \/ Analyze
    \/ StartGameLoop
    \/ StartMain
    \/ GameLoopLost
    \/ GameLoopRead
    \/ MainIteration
    \/ MainLost

SpecGame == InitGame /\ [][NextGame]_vars

-----------------------------------------------------------------------------
(* Claims about the two loops, checked under SpecGame *)

InGame == driver # "none"

\* the line last read was handed to try_match (a rejected line prints
\* "need5"; pc = "panicked" is the panic of print_result_for)
LastScored == said \in {"feedback", "won", "lost"} \/ pc = "panicked"

\* a line has been read in this game
LineRead == scored > 0 \/ said = "need5"

\* C8: the loop runs until a guess fully matches or the attempt counter reaches
\* ATTEMPT_COUNT: it ends only in a win or a loss, in a loss exactly when 6
\* scored guesses have all failed to fully match, and the attempt counter never
\* exceeds 6.
C8_LoopEndsInWinOrLoss ==
    InGame =>
        /\ attempt_n <= ATTEMPT_COUNT
        /\ pc # "loop" => pc \in {"won", "lost"}
        /\ pc = "won" => full = TRUE
        /\ pc = "lost" =>
              (scored = ATTEMPT_COUNT /\ failed = ATTEMPT_COUNT
                  /\ attempt_n = ATTEMPT_COUNT)
        /\ (pc # "loop" /\ scored = ATTEMPT_COUNT /\ failed = ATTEMPT_COUNT) =>
              pc = "lost"

\* C9: in either loop try_match is only called with a guess whose length is
\* WORD_LENGTH: a line of any other length is rejected, is not scored and does
\* not end the game.
C9_OnlyFiveScored ==
    (InGame /\ LineRead) =>
        /\ LastScored => len(guess) = WORD_LENGTH
        /\ len(guess) # WORD_LENGTH =>
              (said = "need5" /\ pc \in {"loop", "read_failed"})

\* C11: in every run of either loop, for every sequence of input lines, a win
\* ("You won!") is reported only after an input whose trimmed text is
\* character for character the secret word.
C11_WinOnlyOnSecret ==
    (InGame /\ said = "won") =>
        /\ pc = "won"
        /\ Len(guess) = Len(word.val)
        /\ \A i \in 1..Len(guess) : guess[i] = word.val[i]

\* C12: when a loop reports a win, the N of "You needed N attempts" is the
\* number of guesses scored in that game up to and including the winning one:
\* 1 for a win on the first guess, at most ATTEMPT_COUNT.
C12_ReportedCountsGuesses ==
    (InGame /\ said = "won") =>
        /\ reported = scored
        /\ reported >= 1
        /\ reported <= ATTEMPT_COUNT

=============================================================================
